---- MODULE Spec2Model ----
(***************************************************************************)
(* The component store of stuff-org (src/stuff/main.go): the in-memory     *)
(* backend (InMemoryStore) with its lock and pointer-identity conflict     *)
(* check, and the durable backend (DBBackend) with its select / insert /   *)
(* update statements.  Callers run EditRecord, FindById and Search         *)
(* concurrently; every step between two lock operations or two SQL         *)
(* statements is one action.                                               *)
(*                                                                         *)
(* Go strings are sequences of characters, a *string is a sequence of      *)
(* length 0 (nil) or 1, a *Component is an address in heap (0 is nil).     *)
(***************************************************************************)
EXTENDS Integers, Sequences, FiniteSets, TLC

\* ------------------------------------------------------------------ bounds
MaxCalls == 3          \* calls started in one run of the concurrent store
MaxSeqOps == 2         \* operations the sequential two-backend driver issues
MaxSearches == 2       \* Search calls started on one of the stocked stores
MaxSetOps == 3         \* calls made on the store with equivalence sets
MaxFairCalls == 2      \* calls started in a run under fair scheduling

Procs == {"c1", "c2"}  \* concurrent callers (one per inbound request)
Ids == {1, 2}          \* the ids callers use
Nil == 0               \* the nil *Component

\* Field texts and search terms callers supply.
Strings == { <<>>, <<"k">>, <<"r", "k">> }
Terms == { <<"k">>, <<"r">> }

VARIABLES
  store,         \* the StuffStore main constructed: "mem", "db" (or "both")
  lock,          \* InMemoryStore.lock: the caller holding it, or "none"
  id2Component,  \* InMemoryStore.id2Component: id -> *Component (Nil: no entry)
  heap,          \* the Component objects pointers refer to
  rows,          \* table component of the durable backend: id -> <<>> or <<row>>
  now,           \* time.Now(), a logical clock advanced by each statement
  crashed,       \* log.Fatal was reached: the process has exited
  local,         \* each caller's position and the locals of the call it runs
  obs,           \* per call, what an observer of the run records about it
  commits,       \* per backend and id, the writes committed so far
  ncalls,        \* calls started so far
  seq,           \* the sequential driver: the operation both backends are given
  catalog,       \* the records of the store with equivalence sets: id -> <<>> or <<c>>
  setlog,        \* the last two calls on that store and what they did
  probe          \* a component and a term handed to the scoring function

\* The variables the component store of main does not touch.
rest == << catalog, setlog, probe >>

vars == << store, lock, id2Component, heap, rows, now, crashed, local, obs, commits,
           ncalls, seq, rest >>

\* The ids used with equivalence sets.
SetIds == {1, 2, 3}

NoSetOp == [ kind |-> "none", id |-> 0, set |-> 0, value |-> <<>>, writesSet |-> FALSE ]

IdleSetlog ==
  [ n |-> 0, last |-> NoSetOp, prev |-> NoSetOp, changed |-> {}, setChanged |-> {},
    result |-> <<>>, joined |-> {} ]

IdleProbe == [ comp |-> <<>>, term |-> <<>>, score |-> <<>> ]

InitRest ==
  /\ catalog = [ i \in SetIds |-> <<>> ]
  /\ setlog = IdleSetlog
  /\ probe = IdleProbe

\* ------------------------------------------------------- Component, strings
\* type Component struct { id; value; category; description; quantity; notes }
EmptyComponent ==
  [ id |-> 0, value |-> <<>>, category |-> <<>>, description |-> <<>>,
    quantity |-> <<>>, notes |-> <<>> ]

NewComponent(id) == [EmptyComponent EXCEPT !.id = id]

\* strings.Index(haystack, needle): the first 0-based position, or -1.
IsAt(needle, haystack, i) ==
  /\ i + Len(needle) <= Len(haystack)
  /\ \A j \in 1..Len(needle) : haystack[i + j] = needle[j]

StringIndex(haystack, needle) ==
  LET hits == { i \in 0..Len(haystack) : IsAt(needle, haystack, i) }
  IN  IF hits = {} THEN -1
      ELSE CHOOSE i \in hits : \A j \in hits : i <= j

StringScore(needle, haystack) ==
  LET at == StringIndex(haystack, needle)
  IN  IF at = -1 THEN 0 ELSE IF at = 0 THEN 2 ELSE 1

\* Variant: the weights of category and value are exchanged.
MatchScoreWeightsExchanged(c, term) ==
  3 * StringScore(term, c.category) + 1 * StringScore(term, c.value)
    + 2 * StringScore(term, c.description)

MatchScore(c, term) ==
  1 * StringScore(term, c.category) + 3 * StringScore(term, c.value)
    + 2 * StringScore(term, c.description)

nullIfEmpty(s) == IF s = <<>> THEN <<>> ELSE << s >>
emptyIfNull(s) == IF s = <<>> THEN <<>> ELSE s[1]

\* ------------------------------------------------------------- ModifyFun
\* An update function: the fields it assigns, whether it changes comp.id,
\* what it returns, and whether it calls FindById on the store as it runs.  The form handler's closure assigns the text fields and
\* returns true; the others are the callers the store contract allows for.
Updaters ==
  { [ sets |-> {"value"}, text |-> <<"k">>, changeId |-> FALSE, ret |-> TRUE,
      finds |-> FALSE ],
    [ sets |-> {"value", "category"}, text |-> <<"r", "k">>,
      changeId |-> FALSE, ret |-> TRUE, finds |-> FALSE ],
    [ sets |-> {"description"}, text |-> <<"r", "k">>, changeId |-> FALSE,
      ret |-> TRUE, finds |-> FALSE ],
    [ sets |-> {}, text |-> <<>>, changeId |-> FALSE, ret |-> TRUE,
      finds |-> FALSE ],
    [ sets |-> {"value"}, text |-> <<"r", "k">>, changeId |-> FALSE,
      ret |-> FALSE, finds |-> FALSE ],
    [ sets |-> {"description"}, text |-> <<"k">>, changeId |-> TRUE,
      ret |-> TRUE, finds |-> FALSE ] }

\* Update functions that look the record up on the same store while they run.
ReentrantUpdaters ==
  { [ sets |-> {"value"}, text |-> <<"k">>, changeId |-> FALSE, ret |-> TRUE,
      finds |-> TRUE ],
    [ sets |-> {"value"}, text |-> <<"r", "k">>, changeId |-> FALSE, ret |-> FALSE,
      finds |-> TRUE ] }

\* update(comp): the record as the function leaves it.
ApplyUpdate(f, c) ==
  [ id          |-> IF f.changeId THEN c.id + 1 ELSE c.id,
    value       |-> IF "value" \in f.sets THEN f.text ELSE c.value,
    category    |-> IF "category" \in f.sets THEN f.text ELSE c.category,
    description |-> IF "description" \in f.sets THEN f.text ELSE c.description,
    quantity    |-> c.quantity,
    notes       |-> c.notes ]

\* ------------------------------------------------------------ operations
Backends == {"mem", "db"}
NoUpdater ==
  [ sets |-> {}, text |-> <<>>, changeId |-> FALSE, ret |-> FALSE, finds |-> FALSE ]

EditOps(b) ==
  { [ backend |-> b, kind |-> "edit", id |-> i, f |-> f, term |-> <<>> ] :
      i \in Ids, f \in Updaters }
FindOps(b) ==
  { [ backend |-> b, kind |-> "find", id |-> i, f |-> NoUpdater, term |-> <<>> ] :
      i \in Ids }
SearchOps(b) ==
  { [ backend |-> b, kind |-> "search", id |-> 1, f |-> NoUpdater, term |-> t ] :
      t \in Terms }
OpsOf(b) == EditOps(b) \cup FindOps(b) \cup SearchOps(b)
ReentrantEditOps(b) ==
  { [ backend |-> b, kind |-> "edit", id |-> i, f |-> f, term |-> <<>> ] :
      i \in Ids, f \in ReentrantUpdaters }
NoOp == [ backend |-> "mem", kind |-> "none", id |-> 1, f |-> NoUpdater,
          term |-> <<>> ]

IdleLocal ==
  [ pc |-> "idle", op |-> NoOp, found |-> Nil, toEdit |-> EmptyComponent,
    before |-> EmptyComponent, needsInsert |-> FALSE, scoredlist |-> <<>>,
    committed |-> FALSE, msg |-> "", result |-> <<>> ]

\* What the observer notes of one call: the commits on the id when the call
\* read it (snap) and how many more there were when it reached its commit step
\* (between), the record it read, whether a step of the call changed the
\* store, whether a statement of the call failed, whether the caller wrote
\* through a returned pointer, the commits on the id when an EditRecord
\* returned (atReturn), how often the call read the record (reads) and ran
\* its update function (updates), whether a call committed on another id
\* between its snapshot and its commit step (elsewhere), and the ids whose
\* stored record the commit step changed (touched).
IdleObs ==
  [ snap |-> 0, between |-> 0, read |-> EmptyComponent, wrote |-> FALSE,
    ioFailed |-> FALSE, aliasWrite |-> FALSE, atReturn |-> 0, reads |-> 0,
    updates |-> 0, elsewhere |-> FALSE, touched |-> {} ]

\* The first step of each operation.
FirstPc(op) ==
  IF op.backend = "mem"
  THEN CASE op.kind = "edit"   -> "lock1"
         [] op.kind = "find"   -> "flock"
         [] op.kind = "search" -> "slock"
  ELSE CASE op.kind = "edit"   -> "dfind"
         [] op.kind = "find"   -> "dbfind"
         [] op.kind = "search" -> "dbsearch"

StartCall(op) == [IdleLocal EXCEPT !.pc = FirstPc(op), !.op = op]

Returns(l, ok, message) ==
  [l EXCEPT !.pc = "done", !.committed = ok, !.msg = message]

ConflictMsg == "Editing conflict. Discarding this edit. Sorry."

\* ------------------------------------------------------------------ heap
\* Variant: the object returned is one handed out before.
AllocReused(h) == IF Len(h) = 0 THEN 1 ELSE Len(h)

\* &Component{...} and &toEdit: a new object, at an address not in use.
\* Objects are never freed here, so no address is handed out twice.
Alloc(h) == Len(h) + 1

\* Variant: the object handed out last is overwritten as well.
StoreAlsoPrevious(h, addr, c) ==
  [ i \in 1..(Len(h) + 1) |-> IF i >= Len(h) THEN c ELSE h[i] ]

\* *addr = c, addr being a new object or one in use.
Store(h, addr, c) ==
  IF addr = Len(h) + 1 THEN Append(h, c) ELSE [h EXCEPT ![addr] = c]

Deref(h, ptrs) == [ i \in 1..Len(ptrs) |-> h[ptrs[i]] ]

\* What FindById and the commit check can see of the two stores.
ViewOf(map, h, r) ==
  [ entry  |-> map,
    record |-> [ i \in Ids |-> IF map[i] = Nil THEN <<>> ELSE << h[map[i]] >> ],
    table  |-> r ]
StoreView == ViewOf(id2Component, heap, rows)

MainIdle ==
  /\ lock = "none"
  /\ id2Component = [ i \in Ids |-> Nil ]
  /\ heap = <<>>
  /\ rows = [ i \in Ids |-> <<>> ]
  /\ now = 1
  /\ crashed = FALSE
  /\ local = [ p \in Procs |-> IdleLocal ]
  /\ obs = [ p \in Procs |-> IdleObs ]
  /\ commits = [ b \in Backends |-> [ i \in Ids |-> 0 ] ]
  /\ ncalls = 0
  /\ seq = [ phase |-> "idle", op |-> NoOp, n |-> 0,
             memRes |-> <<>>, dbRes |-> <<>> ]

InitStores == MainIdle /\ InitRest

\* main: store := NewInMemoryStore(), or store, err := NewDBBackend(db).
Init == store \in Backends /\ InitStores

\* A caller starts an operation on the store.
Call(p) ==
  /\ ~crashed
  /\ local[p].pc = "idle"
  /\ ncalls < MaxCalls
  /\ \E op \in OpsOf(store) :
       local' = [local EXCEPT ![p] = StartCall(op)]
  /\ obs' = [obs EXCEPT ![p] = IdleObs]
  /\ ncalls' = ncalls + 1
  /\ UNCHANGED << store, lock, id2Component, heap, rows, now, crashed, commits,
                  seq, rest >>

\* The call has returned and the caller goes on to its next request.
Return(p) ==
  /\ ~crashed
  /\ local[p].pc = "done"
  /\ local' = [local EXCEPT ![p] = IdleLocal]
  /\ obs' = [obs EXCEPT ![p] = IdleObs]
  /\ UNCHANGED << store, lock, id2Component, heap, rows, now, crashed, commits,
                  ncalls, seq, rest >>

\* --------------------------------------------------------- InMemoryStore
AfterLock(pc) ==
  CASE pc = "lock1" -> "read"
    [] pc = "lock2" -> "commit"
    [] pc = "flock" -> "fread"
    [] pc = "uflock" -> "ufread"
    [] pc = "slock" -> "scan"

\* Variant: the Unlock after the snapshot is left out.
UnlockForgotten(holder) == holder

\* s.lock.Unlock(): the lock as the holder leaves it.
Unlock(holder) == "none"

\* s.lock.Lock()
MemLock(p) ==
  /\ ~crashed
  /\ local[p].pc \in {"lock1", "lock2", "flock", "uflock", "slock"}
  /\ lock = "none"
  /\ lock' = p
  /\ local' = [local EXCEPT ![p].pc = AfterLock(@)]
  /\ UNCHANGED << store, id2Component, heap, rows, now, crashed, obs, commits,
                  ncalls, seq, rest >>

\* EditRecord, the snapshot: found := s.id2Component[id]; toEdit = *found, or
\* an empty record with the id.
MemRead(p) ==
  LET id == local[p].op.id
      found == id2Component[id]
      toEdit == IF found # Nil THEN heap[found] ELSE NewComponent(id)
  IN  /\ ~crashed
      /\ local[p].pc = "read"
      /\ lock = p
      /\ local' = [local EXCEPT
           ![p].found = found, ![p].toEdit = toEdit,
           ![p].pc = IF local[p].op.f.finds THEN "uflock" ELSE "update"]
      /\ obs' = [obs EXCEPT ![p].snap = commits["mem"][id],
                            ![p].read = toEdit, ![p].reads = @ + 1]
      /\ lock' = Unlock(p)
      /\ UNCHANGED << store, id2Component, heap, rows, now, crashed, commits,
                      ncalls, seq, rest >>

\* The update function calls s.FindById(id) as it starts: under the lock it
\* takes for that, it reads the stored pointer.
MemFindInUpdate(p) ==
  /\ ~crashed
  /\ local[p].pc = "ufread"
  /\ lock = p
  /\ local' = [local EXCEPT ![p].pc = "update"]
  /\ lock' = Unlock(p)
  /\ UNCHANGED << store, id2Component, heap, rows, now, crashed, obs, commits,
                  ncalls, seq, rest >>

\* Variant: the result of the update function is ignored.
MemWantsCommitAlways(f) == TRUE

\* if update(&toEdit) { ... }: whether the edit goes on to the commit step.
MemWantsCommit(f) == f.ret

\* EditRecord runs the update function on its copy, outside the lock; when it
\* returns true the id is put back.
MemUpdate(p) ==
  LET l == local[p]
      edited == ApplyUpdate(l.op.f, l.toEdit)
  IN  /\ ~crashed
      /\ l.pc = "update"
      /\ local' = [local EXCEPT ![p] =
           IF MemWantsCommit(l.op.f)
           THEN [l EXCEPT !.toEdit = [edited EXCEPT !.id = l.op.id],
                          !.pc = "lock2"]
           ELSE Returns([l EXCEPT !.toEdit = edited], TRUE, "")]
      /\ obs' = [obs EXCEPT ![p].updates = @ + 1]
      /\ UNCHANGED << store, lock, id2Component, heap, rows, now, crashed,
                      commits, ncalls, seq, rest >>

\* Variant: the check compares the records' contents, not the pointers.
MemConflictByContent(current, found, h) ==
  IF current = Nil \/ found = Nil THEN current # found
  ELSE h[current] # h[found]

\* if s.id2Component[id] != found: pointer identity.
MemConflict(current, found, h) == current # found

\* Variant: the assignment precedes the conflict check.
MemInstallBeforeCheck(map, id, addr, conflict) == [map EXCEPT ![id] = addr]

\* Variant: the new record is put under every id of the map.
MemInstallEverywhere(map, id, addr, conflict) ==
  IF conflict THEN map ELSE [ i \in DOMAIN map |-> addr ]

\* The map as the commit step leaves it: on a conflict the function returns
\* before s.id2Component[id] = &toEdit.
MemInstall(map, id, addr, conflict) ==
  IF conflict THEN map ELSE [map EXCEPT ![id] = addr]

\* The call is an EditRecord that has taken its snapshot and not yet reached
\* the end of its commit step.
MidEdit(l) == l.pc \in {"uflock", "ufread", "update", "lock2", "commit"}

\* Variant: on a conflict the edit starts over from the snapshot.
MemRetryOnConflict(l) == [ l EXCEPT !.pc = "lock1" ]

\* return false, "Editing conflict. Discarding this edit. Sorry."
MemOnConflict(l) == Returns(l, FALSE, ConflictMsg)

\* EditRecord, the commit step, under the lock that the deferred Unlock
\* releases at return.
MemCommit(p) ==
  LET l == local[p]
      id == l.op.id
      conflict == MemConflict(id2Component[id], l.found, heap)
      addr == Alloc(heap)
  IN  /\ ~crashed
      /\ l.pc = "commit"
      /\ lock = p
      /\ id2Component' = MemInstall(id2Component, id, addr, conflict)
      /\ IF conflict
         THEN /\ UNCHANGED commits
              /\ local' = [local EXCEPT ![p] = MemOnConflict(l)]
         ELSE /\ commits' = [commits EXCEPT !["mem"][id] = @ + 1]
              /\ local' = [local EXCEPT ![p] = Returns(l, TRUE, "")]
      /\ heap' = IF id2Component' # id2Component
                 THEN Store(heap, addr, l.toEdit) ELSE heap
      /\ obs' = [ q \in Procs |->
           IF q = p
           THEN [ obs[p] EXCEPT
                  !.between = commits["mem"][id] - obs[p].snap,
                  !.wrote = (ViewOf(id2Component', heap', rows) # StoreView),
                  !.touched = { i \in Ids :
                    ViewOf(id2Component', heap', rows).record[i]
                      # StoreView.record[i] },
                  !.atReturn = commits'["mem"][id] ]
           ELSE IF ~conflict /\ MidEdit(local[q]) /\ local[q].op.id # id
                THEN [ obs[q] EXCEPT !.elsewhere = TRUE ]
                ELSE obs[q] ]
      /\ lock' = Unlock(p)
      /\ UNCHANGED << store, rows, now, crashed, ncalls, seq, rest >>

\* FindById: return s.id2Component[id], the stored pointer itself.
MemFindRead(p) ==
  LET ptr == id2Component[local[p].op.id]
  IN  /\ ~crashed
      /\ local[p].pc = "fread"
      /\ lock = p
      /\ local' = [local EXCEPT ![p] =
           Returns([@ EXCEPT !.result = IF ptr = Nil THEN <<>> ELSE << ptr >>],
                   TRUE, "")]
      /\ lock' = Unlock(p)
      /\ UNCHANGED << store, id2Component, heap, rows, now, crashed, obs, commits,
                      ncalls, seq, rest >>

\* The orders in which a set can be listed.
Orders(S) ==
  { s \in [1..Cardinality(S) -> S] : \A i, j \in DOMAIN s : i # j => s[i] # s[j] }

\* Search, under the lock: score every stored component, in the order the map
\* iteration happens to take, and keep those with a positive score.
MemScan(p) ==
  LET term == local[p].op.term
      scored == { [ score |-> MatchScore(heap[id2Component[i]], term),
                    comp |-> id2Component[i] ] :
                  i \in { j \in Ids : id2Component[j] # Nil } }
      kept == { sc \in scored : sc.score > 0 }
  IN  /\ ~crashed
      /\ local[p].pc = "scan"
      /\ lock = p
      /\ \E order \in Orders(kept) :
           local' = [local EXCEPT ![p].scoredlist = order, ![p].pc = "sort"]
      /\ lock' = Unlock(p)
      /\ UNCHANGED << store, id2Component, heap, rows, now, crashed, obs, commits,
                      ncalls, seq, rest >>

\* Variant: the comparison is the wrong way round.
LessAscending(a, b) == a.score < b.score

\* ScoreList.Less: highest score first.
Less(a, b) == a.score > b.score

\* sort.Sort(scoredlist), which is not stable: any arrangement in which no
\* element precedes one that is Less than it.
Sorted(s) == \A i, j \in DOMAIN s : i < j => ~Less(s[j], s[i])

MemSort(p) ==
  LET list == local[p].scoredlist
      elems == { list[i] : i \in DOMAIN list }
  IN  /\ ~crashed
      /\ local[p].pc = "sort"
      /\ \E sorted \in { s \in Orders(elems) : Sorted(s) } :
           local' = [local EXCEPT ![p] =
             Returns([@ EXCEPT !.result =
                        [ i \in DOMAIN sorted |-> sorted[i].comp ]], TRUE, "")]
      /\ UNCHANGED << store, lock, id2Component, heap, rows, now, crashed, obs,
                      commits, ncalls, seq, rest >>

\* ------------------------------------------------------------- DBBackend
\* Variant: $3 and $4 of the statement are bound the wrong way round.
NewRowSwapped(c, created) ==
  [ created |-> created, updated |-> <<>>,
    category |-> nullIfEmpty(c.value), value |-> nullIfEmpty(c.category),
    description |-> nullIfEmpty(c.description), notes |-> nullIfEmpty(c.notes),
    quantity |-> nullIfEmpty(c.quantity) ]

\* One row of table component; id is its key.  Text columns are nullable.
NewRow(c, created) ==
  [ created |-> created, updated |-> <<>>,
    category |-> nullIfEmpty(c.category), value |-> nullIfEmpty(c.value),
    description |-> nullIfEmpty(c.description), notes |-> nullIfEmpty(c.notes),
    quantity |-> nullIfEmpty(c.quantity) ]

\* UPDATE component SET updated=$2, category=$3, ... where id=$1
UpdatedRow(row, c, updated) ==
  [ NewRow(c, row.created) EXCEPT !.updated = << updated >> ]

\* DBBackend.FindById when the query succeeds: nil (<<>>) for no row, else a
\* Component built from the row's columns.
DBFindById(r, id) ==
  IF r[id] = <<>> THEN <<>>
  ELSE << [ id          |-> id,
            category    |-> emptyIfNull(r[id][1].category),
            value       |-> emptyIfNull(r[id][1].value),
            description |-> emptyIfNull(r[id][1].description),
            notes       |-> emptyIfNull(r[id][1].notes),
            quantity    |-> emptyIfNull(r[id][1].quantity) ] >>

\* EditRecord, the read half: rec := d.FindById(id); before := *rec.
DBEditFind(p) ==
  LET id == local[p].op.id
      got == DBFindById(rows, id)
      rec == IF got = <<>> THEN NewComponent(id) ELSE got[1]
  IN  /\ ~crashed
      /\ local[p].pc = "dfind"
      /\ local' = [local EXCEPT ![p].needsInsert = (got = <<>>),
                                ![p].toEdit = rec, ![p].before = rec,
                                ![p].pc = "dupdate"]
      /\ obs' = [obs EXCEPT ![p].snap = commits["db"][id], ![p].read = rec,
                            ![p].reads = @ + 1]
      /\ UNCHANGED << store, lock, id2Component, heap, rows, now, crashed, commits,
                      ncalls, seq, rest >>

\* FindById, case err != nil: log.Fatal(err) ends the process.
DBQueryFatal(p) ==
  /\ ~crashed
  /\ local[p].pc \in {"dfind", "dbfind"}
  /\ crashed' = TRUE
  /\ obs' = [obs EXCEPT ![p].ioFailed = TRUE]
  /\ UNCHANGED << store, lock, id2Component, heap, rows, now, local, commits,
                  ncalls, seq, rest >>

\* if rec.id != id: the update function changed the id.
DBIdModified(rec, id) == rec.id # id

\* if *rec == before: nothing to store.
DBNoChange(rec, before) == rec = before

\* EditRecord runs the update function on rec and decides what to do.
DBUpdate(p) ==
  LET l == local[p]
      rec == ApplyUpdate(l.op.f, l.toEdit)
      l2 == [l EXCEPT !.toEdit = rec]
  IN  /\ ~crashed
      /\ l.pc = "dupdate"
      /\ local' = [local EXCEPT ![p] =
           IF ~l.op.f.ret THEN Returns(l2, TRUE, "")
           ELSE IF DBIdModified(rec, l.op.id)
                THEN Returns(l2, FALSE, "ID was modified")
           ELSE IF DBNoChange(rec, l.before)
                THEN Returns(l2, TRUE, "No change")
           ELSE [l2 EXCEPT !.pc = "dexec"]]
      /\ obs' = [obs EXCEPT ![p].atReturn = commits["db"][l.op.id],
                            ![p].updates = @ + 1]
      /\ UNCHANGED << store, lock, id2Component, heap, rows, now, crashed,
                      commits, ncalls, seq, rest >>

\* The table after insertRecord.Exec / updateRecord.Exec ran without error.
DBWrite(r, id, rec, needsInsert, time) ==
  [r EXCEPT ![id] = IF needsInsert THEN << NewRow(rec, time) >>
                    ELSE << UpdatedRow(r[id][1], rec, time) >>]

\* EditRecord, the write half.  An insert of an id that meanwhile got a row
\* violates the key and returns an error.
DBExec(p) ==
  LET l == local[p]
      id == l.op.id
      duplicate == l.needsInsert /\ rows[id] # <<>>
  IN  /\ ~crashed
      /\ l.pc = "dexec"
      /\ IF duplicate
         THEN /\ UNCHANGED << rows, commits >>
              /\ local' = [local EXCEPT ![p] =
                   Returns(l, FALSE, "UNIQUE constraint failed")]
         ELSE /\ rows' = DBWrite(rows, id, l.toEdit, l.needsInsert, now)
              /\ commits' = [commits EXCEPT !["db"][id] = @ + 1]
              /\ local' = [local EXCEPT ![p] = Returns(l, TRUE, "")]
      /\ now' = now + 1
      /\ obs' = [obs EXCEPT
           ![p].between = commits["db"][id] - obs[p].snap,
           ![p].wrote = (ViewOf(id2Component, heap, rows') # StoreView),
           ![p].atReturn = commits'["db"][id]]
      /\ UNCHANGED << store, lock, id2Component, heap, crashed, ncalls, seq, rest >>

\* The statement fails (connection lost, ...): return false, err.Error().
DBExecFail(p) ==
  /\ ~crashed
  /\ local[p].pc = "dexec"
  /\ local' = [local EXCEPT ![p] = Returns(@, FALSE, "driver: bad connection")]
  /\ obs' = [obs EXCEPT ![p].ioFailed = TRUE,
                        ![p].between = commits["db"][local[p].op.id]
                                         - obs[p].snap]
  /\ UNCHANGED << store, lock, id2Component, heap, rows, now, crashed, commits,
                  ncalls, seq, rest >>

\* A caller's FindById to the durable backend: a new Component per call.
DBFind(p) ==
  LET got == DBFindById(rows, local[p].op.id)
      addr == Alloc(heap)
  IN  /\ ~crashed
      /\ local[p].pc = "dbfind"
      /\ IF got = <<>>
         THEN /\ heap' = heap
              /\ local' = [local EXCEPT ![p] = Returns(@, TRUE, "")]
         ELSE /\ heap' = Store(heap, addr, got[1])
              /\ local' = [local EXCEPT ![p] =
                   Returns([@ EXCEPT !.result = << addr >>], TRUE, "")]
      /\ UNCHANGED << store, lock, id2Component, rows, now, crashed, obs, commits,
                      ncalls, seq, rest >>

\* DBBackend.Search: return nil ("not implemented yet").
DBSearch(p) ==
  /\ ~crashed
  /\ local[p].pc = "dbsearch"
  /\ local' = [local EXCEPT ![p] = Returns([@ EXCEPT !.result = <<>>], TRUE, "")]
  /\ UNCHANGED << store, lock, id2Component, heap, rows, now, crashed, obs, commits,
                  ncalls, seq, rest >>

\* ---------------------------------------------------------- specification
Step(p) ==
  \/ MemLock(p) \/ MemRead(p) \/ MemUpdate(p) \/ MemCommit(p)
  \/ MemFindRead(p) \/ MemScan(p) \/ MemSort(p)
  \/ DBEditFind(p) \/ DBUpdate(p) \/ DBExec(p) \/ DBFind(p) \/ DBSearch(p)

Next ==
  \E p \in Procs :
    \/ Call(p) \/ Return(p) \/ Step(p)
    \/ DBQueryFatal(p) \/ DBExecFail(p)

Spec == Init /\ [][Next]_vars

\* ------------------------------------------- the two backends side by side
\* One caller gives every operation first to the in-memory store and, when it
\* has returned, to the durable store; no call overlaps another.
Driver == "c1"

\* What the caller gets back: the committed flag, and the components the
\* returned pointers refer to (none for nil).
Result(p) ==
  [ committed |-> local[p].committed,
    values    |-> Deref(heap, local[p].result) ]

SeqStart ==
  /\ ~crashed
  /\ seq.phase \in {"idle", "cmp"}
  /\ seq.n < MaxSeqOps
  /\ local[Driver].pc = "idle"
  /\ \E op \in OpsOf("mem") :
       /\ seq' = [ phase |-> "mem", op |-> op, n |-> seq.n + 1,
                   memRes |-> <<>>, dbRes |-> <<>> ]
       /\ local' = [local EXCEPT ![Driver] = StartCall(op)]
  /\ obs' = [obs EXCEPT ![Driver] = IdleObs]
  /\ UNCHANGED << store, lock, id2Component, heap, rows, now, crashed, commits,
                  ncalls, rest >>

SeqSwitch ==
  /\ ~crashed
  /\ seq.phase = "mem"
  /\ local[Driver].pc = "done"
  /\ seq' = [seq EXCEPT !.phase = "db", !.memRes = << Result(Driver) >>]
  /\ local' = [local EXCEPT
       ![Driver] = StartCall([seq.op EXCEPT !.backend = "db"])]
  /\ obs' = [obs EXCEPT ![Driver] = IdleObs]
  /\ UNCHANGED << store, lock, id2Component, heap, rows, now, crashed, commits,
                  ncalls, rest >>

SeqFinish ==
  /\ ~crashed
  /\ seq.phase = "db"
  /\ local[Driver].pc = "done"
  /\ seq' = [seq EXCEPT !.phase = "cmp", !.dbRes = << Result(Driver) >>]
  /\ local' = [local EXCEPT ![Driver] = IdleLocal]
  /\ obs' = [obs EXCEPT ![Driver] = IdleObs]
  /\ UNCHANGED << store, lock, id2Component, heap, rows, now, crashed, commits,
                  ncalls, rest >>

NextSeq == SeqStart \/ SeqSwitch \/ SeqFinish \/ Step(Driver)

\* Both stores are constructed, empty.
InitSeq == store = "both" /\ InitStores

SpecSeq == InitSeq /\ [][NextSeq]_vars

\* ------------------------------------- a caller writing to what it was given
\* The caller assigns a field of the Component a FindById returned to it,
\* against "Don't modify the returned pointer".
CallerWrite(p) ==
  /\ ~crashed
  /\ local[p].pc = "done"
  /\ local[p].op.kind = "find"
  /\ local[p].result # <<>>
  /\ ~obs[p].aliasWrite
  /\ \E s \in Strings :
       /\ s # heap[local[p].result[1]].value
       /\ heap' = [heap EXCEPT ![local[p].result[1]].value = s]
  /\ obs' = [obs EXCEPT ![p].aliasWrite = TRUE]
  /\ UNCHANGED << store, lock, id2Component, rows, now, crashed, local, commits,
                  ncalls, seq, rest >>

NextAlias == Next \/ \E p \in Procs : CallerWrite(p)

SpecAlias == Init /\ [][NextAlias]_vars

\* What a FindById on either backend would return for each id.
FindView ==
  [ mem |-> StoreView.record, db |-> [ i \in Ids |-> DBFindById(rows, i) ] ]

\* ------------------------------------------------- Search on a stocked store
\* The stores that edits of the text fields can build: for each id no record,
\* or one whose value, category and description are texts callers supply.
StockedComponents(i) ==
  { [ NewComponent(i) EXCEPT !.value = v, !.category = c, !.description = d ] :
      v \in Strings, c \in Strings, d \in Strings }

\* The heap and map of an in-memory store holding the records st.
StockHeap(st) ==
  LET held(n) == { i \in Ids : i <= n /\ st[i] # <<>> }
      nth(k) == CHOOSE i \in Ids : st[i] # <<>> /\ Cardinality(held(i)) = k
  IN  [ k \in 1..Cardinality({ i \in Ids : st[i] # <<>> }) |-> st[nth(k)][1] ]

StockMap(st) ==
  [ i \in Ids |-> IF st[i] = <<>> THEN Nil
                  ELSE Cardinality({ j \in Ids : j <= i /\ st[j] # <<>> }) ]

StockRows(st) ==
  [ i \in Ids |-> IF st[i] = <<>> THEN <<>> ELSE << NewRow(st[i][1], 0) >> ]

InitSearch ==
  /\ store \in Backends
  /\ \E present \in SUBSET Ids :
     \E st \in [ Ids -> {<<>>} \cup UNION { { << c >> : c \in StockedComponents(i) } :
                                            i \in Ids } ] :
       /\ \A i \in Ids : IF i \in present THEN st[i] # <<>> /\ st[i][1].id = i
                                           ELSE st[i] = <<>>
       /\ id2Component = IF store = "mem" THEN StockMap(st)
                         ELSE [ i \in Ids |-> Nil ]
       /\ heap = IF store = "mem" THEN StockHeap(st) ELSE <<>>
       /\ rows = IF store = "db" THEN StockRows(st) ELSE [ i \in Ids |-> <<>> ]
  /\ lock = "none"
  /\ now = 1
  /\ crashed = FALSE
  /\ local = [ p \in Procs |-> IdleLocal ]
  /\ obs = [ p \in Procs |-> IdleObs ]
  /\ commits = [ b \in Backends |-> [ i \in Ids |-> 0 ] ]
  /\ ncalls = 0
  /\ seq = [ phase |-> "idle", op |-> NoOp, n |-> 0,
             memRes |-> <<>>, dbRes |-> <<>> ]
  /\ InitRest

\* A caller starts a Search.
CallSearch(p) ==
  /\ local[p].pc = "idle"
  /\ ncalls < MaxSearches
  /\ \E op \in SearchOps(store) :
       local' = [local EXCEPT ![p] = StartCall(op)]
  /\ ncalls' = ncalls + 1
  /\ UNCHANGED << store, lock, id2Component, heap, rows, now, crashed, obs,
                  commits, seq, rest >>

NextSearch ==
  \E p \in Procs :
    \/ CallSearch(p) \/ Return(p)
    \/ MemLock(p) \/ MemScan(p) \/ MemSort(p) \/ DBSearch(p)

SpecSearch == InitSearch /\ [][NextSearch]_vars

\* The components the store holds.
Stored == { FindView[store][i][1] : i \in { j \in Ids : FindView[store][j] # <<>> } }

DoneSearch(p) == local[p].pc = "done" /\ local[p].op.kind = "search"

\* What a Search returned, as components.
Found(p) == Deref(heap, local[p].result)

\* ------------------------------------------------------ scoring, on its own
\* Field texts and terms for the scoring function: no match, a match at the
\* start, a match further in, both, and the same letter in the other case.
ProbeStrings == { <<>>, <<"k">>, <<"K">>, <<"r", "k">>, <<"k", "r", "k">> }
ProbeTerms == { <<>>, <<"k">>, <<"K">>, <<"r", "k">> }

InitScore ==
  /\ store = "mem"
  /\ MainIdle
  /\ catalog = [ i \in SetIds |-> <<>> ]
  /\ setlog = IdleSetlog
  /\ \E c \in ProbeStrings, v \in ProbeStrings, d \in ProbeStrings, t \in ProbeTerms :
       probe = [ comp |-> << [ EmptyComponent EXCEPT !.category = c, !.value = v,
                                                     !.description = d ] >>,
                 term |-> t, score |-> <<>> ]

\* c.MatchScore(term).
Score ==
  /\ probe.score = <<>>
  /\ probe' = [probe EXCEPT !.score = << MatchScore(probe.comp[1], probe.term) >>]
  /\ UNCHANGED << store, lock, id2Component, heap, rows, now, crashed, local, obs,
                  commits, ncalls, seq, catalog, setlog >>

NextScore == Score

SpecScore == InitScore /\ [][NextScore]_vars

\* ------------------------------------------------------- equivalence sets
\* The backend behind JoinSet, LeaveSet and MatchingEquivSetForComponent is
\* not part of the source read here; these operations follow the store
\* contract of the specification, each being one atomic statement.

\* A record nobody has grouped: its set is the singleton named by its own id.
NewSetComponent(id) == [ Id |-> id, Equiv_set |-> id, Value |-> <<>> ]

SetOps ==
  { [ kind |-> k, id |-> i, set |-> e, value |-> v, writesSet |-> w ] :
      k \in {"edit", "join", "leave", "match"}, i \in SetIds,
      e \in SetIds \cup {0}, v \in { <<>>, <<"k">> }, w \in BOOLEAN }

EditSetOps ==
  { op \in SetOps : op.kind = "edit" /\ op.set = 0 /\ op.value = <<"k">> }
JoinOps ==
  { op \in SetOps : op.kind = "join" /\ op.set # 0 /\ op.value = <<>> /\ ~op.writesSet }
LeaveOps ==
  { op \in SetOps : op.kind = "leave" /\ op.set = 0 /\ op.value = <<>> /\ ~op.writesSet }
MatchOps ==
  { op \in SetOps : op.kind = "match" /\ op.set = 0 /\ op.value = <<>> /\ ~op.writesSet }

\* The update function of an edit: it sets the value and, if it writes the
\* set, puts a set other than the current one into its copy.
ApplySetUpdate(op, c) ==
  [ c EXCEPT !.Value = op.value,
             !.Equiv_set = IF op.writesSet THEN (@ % Cardinality(SetIds)) + 1 ELSE @ ]

\* Variant: the edit stores the set the update function left in its copy.
KeepSetForgotten(old, edited) == edited

\* An edit does not influence the equivalence set settings.
KeepSet(old, edited) == [ edited EXCEPT !.Equiv_set = old.Equiv_set ]

EditRecordIn(cat, op) ==
  LET old == IF cat[op.id] = <<>> THEN NewSetComponent(op.id) ELSE cat[op.id][1]
  IN  [ cat EXCEPT ![op.id] =
          << [ KeepSet(old, ApplySetUpdate(op, old)) EXCEPT !.Id = op.id ] >> ]

\* JoinSet(id, equiv_set): the record id gets the given set; the set need not
\* name a stored record.
JoinSetIn(cat, id, set) ==
  IF cat[id] = <<>> THEN cat
  ELSE [ cat EXCEPT ![id] = << [ @[1] EXCEPT !.Equiv_set = set ] >> ]

\* Variant: leaving dissolves the whole set the record was in.
LeaveSetDissolves(cat, id) ==
  IF cat[id] = <<>> THEN cat
  ELSE [ i \in SetIds |->
           IF cat[i] # <<>> /\ cat[i][1].Equiv_set = cat[id][1].Equiv_set
           THEN << [ cat[i][1] EXCEPT !.Equiv_set = i ] >> ELSE cat[i] ]

\* LeaveSet(id): back to the default set, equiv_set == id.
LeaveSetIn(cat, id) == JoinSetIn(cat, id, id)

\* Variant: highest id first.
SetKeyLessDescending(a, b) ==
  \/ a.Equiv_set < b.Equiv_set
  \/ a.Equiv_set = b.Equiv_set /\ a.Id > b.Id

\* Ordered by equivalence set, id.
SetKeyLess(a, b) ==
  \/ a.Equiv_set < b.Equiv_set
  \/ a.Equiv_set = b.Equiv_set /\ a.Id < b.Id

\* Variant: the other members only, without the component asked about.
MatchingOthersIn(cat, c) ==
  IF cat[c] = <<>> THEN <<>>
  ELSE LET members == { cat[i][1] : i \in { j \in SetIds \ {c} :
                          cat[j] # <<>> /\ cat[j][1].Equiv_set = cat[c][1].Equiv_set } }
       IN  CHOOSE s \in Orders(members) :
             \A i, j \in DOMAIN s : i < j => SetKeyLess(s[i], s[j])

\* MatchingEquivSetForComponent(component): every record whose set is the
\* set of the component, the component itself included.
MatchingIn(cat, c) ==
  IF cat[c] = <<>> THEN <<>>
  ELSE LET members == { cat[i][1] : i \in { j \in SetIds :
                          cat[j] # <<>> /\ cat[j][1].Equiv_set = cat[c][1].Equiv_set } }
       IN  CHOOSE s \in Orders(members) :
             \A i, j \in DOMAIN s : i < j => SetKeyLess(s[i], s[j])

\* What the log holds after the call op turned the catalog into cat and
\* returned res.
Logged(op, cat, res) ==
  [ n |-> setlog.n + 1, last |-> op, prev |-> setlog.last,
    changed |-> { i \in SetIds : cat[i] # catalog[i] },
    setChanged |-> { i \in SetIds : /\ catalog[i] # <<>> /\ cat[i] # <<>>
                                    /\ cat[i][1].Equiv_set # catalog[i][1].Equiv_set },
    result |-> res,
    joined |-> setlog.joined \cup (IF op.kind = "join" THEN {op.id} ELSE {}) ]

SetCall(op, cat, res) ==
  /\ setlog.n < MaxSetOps
  /\ catalog' = cat
  /\ setlog' = Logged(op, cat, res)
  /\ UNCHANGED << store, lock, id2Component, heap, rows, now, crashed, local, obs,
                  commits, ncalls, seq, probe >>

EditRecordOfSets == \E op \in EditSetOps : SetCall(op, EditRecordIn(catalog, op), <<>>)
JoinSet == \E op \in JoinOps : SetCall(op, JoinSetIn(catalog, op.id, op.set), <<>>)
LeaveSet == \E op \in LeaveOps : SetCall(op, LeaveSetIn(catalog, op.id), <<>>)
MatchingEquivSetForComponent ==
  \E op \in MatchOps : SetCall(op, catalog, MatchingIn(catalog, op.id))

\* The catalog at the start: any of the ids already stored, none grouped.
InitSets ==
  /\ store = "db"
  /\ MainIdle
  /\ \E present \in SUBSET SetIds :
       catalog = [ i \in SetIds |->
                   IF i \in present THEN << NewSetComponent(i) >> ELSE <<>> ]
  /\ setlog = IdleSetlog
  /\ probe = IdleProbe

NextSets == EditRecordOfSets \/ JoinSet \/ LeaveSet \/ MatchingEquivSetForComponent

SpecSets == InitSets /\ [][NextSets]_vars

\* ------------------------------------- the in-memory store, fairly scheduled
InitFair == store = "mem" /\ InitStores

\* A caller starts an operation; its update function may be one that calls
\* FindById on the store.
CallFair(p) ==
  /\ local[p].pc = "idle"
  /\ ncalls < MaxFairCalls
  /\ \E op \in OpsOf("mem") \cup ReentrantEditOps("mem") :
       local' = [local EXCEPT ![p] = StartCall(op)]
  /\ obs' = [obs EXCEPT ![p] = IdleObs]
  /\ ncalls' = ncalls + 1
  /\ UNCHANGED << store, lock, id2Component, heap, rows, now, crashed, commits,
                  seq, rest >>

\* A step of a call that does not wait for the lock.
MemRun(p) ==
  \/ MemRead(p) \/ MemFindInUpdate(p) \/ MemUpdate(p) \/ MemCommit(p)
  \/ MemFindRead(p) \/ MemScan(p) \/ MemSort(p)

NextFair == \E p \in Procs : CallFair(p) \/ Return(p) \/ MemLock(p) \/ MemRun(p)

\* Every goroutine that can run does run, the update functions return, and a
\* goroutine waiting in Lock() gets the mutex if it is free again and again
\* (sync.Mutex hands a starving waiter the lock).
SpecFair ==
  /\ InitFair
  /\ [][NextFair]_vars
  /\ \A p \in Procs : WF_vars(MemRun(p)) /\ SF_vars(MemLock(p))

\* ================================================================ claims
DoneEdit(p) == local[p].pc = "done" /\ local[p].op.kind = "edit"
DoneEditOn(p, b) == DoneEdit(p) /\ local[p].op.backend = b

\* C1: in-memory backend.  An EditRecord whose update function returned true
\* returns committed=true exactly when no other EditRecord committed on its id
\* between its snapshot and its commit step, and then the stored record is its
\* own record; otherwise it returns false with the conflict message and has
\* written nothing.  Of two calls that read the same state of an id at most
\* one is committed.
C1_LostUpdatePrevented ==
  /\ \A p \in Procs :
       (DoneEditOn(p, "mem") /\ local[p].op.f.ret) =>
         /\ local[p].committed <=> (obs[p].between = 0)
         /\ local[p].committed => obs[p].wrote
         /\ ~local[p].committed =>
              (local[p].msg = ConflictMsg /\ ~obs[p].wrote)
         /\ (local[p].committed
               /\ commits["mem"][local[p].op.id] = obs[p].snap + 1) =>
              StoreView.record[local[p].op.id] = << local[p].toEdit >>
  /\ \A p, q \in Procs :
       (/\ p # q
        /\ DoneEditOn(p, "mem") /\ DoneEditOn(q, "mem")
        /\ local[p].op.id = local[q].op.id
        /\ local[p].op.f.ret /\ local[q].op.f.ret
        /\ obs[p].snap = obs[q].snap) =>
         ~(local[p].committed /\ local[q].committed)

C1_Witness ==
  \E p, q \in Procs :
    /\ p # q
    /\ DoneEditOn(p, "mem") /\ DoneEditOn(q, "mem")
    /\ local[p].op.id = local[q].op.id
    /\ local[p].op.f.ret /\ local[q].op.f.ret
    /\ obs[p].snap = obs[q].snap
    /\ local[p].found = local[q].found
    /\ local[p].toEdit # local[q].toEdit
    /\ local[p].committed /\ ~local[q].committed
    /\ StoreView.record[local[p].op.id] = << local[p].toEdit >>

\* C2: for every backend, an EditRecord whose update function changed the id
\* and returned true returns committed=false with a message and writes nothing.
C2_IdChangeRejected ==
  \A p \in Procs :
    (DoneEdit(p) /\ local[p].op.f.ret /\ local[p].op.f.changeId) =>
      (~local[p].committed /\ local[p].msg # "" /\ ~obs[p].wrote)

\* C3: for every backend, an EditRecord whose update function returned true
\* and left every field as it was read returns committed=true and leaves the
\* store, the map entry included, as it was.
C3_NoChangeTouchesNothing ==
  \A p \in Procs :
    (DoneEdit(p) /\ local[p].op.f.ret /\ ~local[p].op.f.changeId
       /\ local[p].toEdit = obs[p].read) =>
      (local[p].committed /\ ~obs[p].wrote)

\* C4: for every backend and every id, present or absent, an EditRecord whose
\* update function returned false returns committed=true and has changed
\* nothing in the store, whatever the function did to its copy.
C4_DiscardChangesNothing ==
  \A p \in Procs :
    (DoneEdit(p) /\ ~local[p].op.f.ret) =>
      (local[p].committed /\ ~obs[p].wrote)

C4_Witness ==
  \E p, q \in Procs :
    /\ p # q /\ DoneEdit(p) /\ DoneEdit(q)
    /\ ~local[p].op.f.ret /\ ~local[q].op.f.ret
    /\ local[p].toEdit # obs[p].read /\ local[q].toEdit # obs[q].read
    /\ local[p].committed /\ local[q].committed
    /\ FindView[store][local[p].op.id] = <<>>
    /\ FindView[store][local[q].op.id] # <<>>

\* C5: in-memory backend.  No caller holds the lock while its update function
\* runs; a caller holds it only in the snapshot read and in the commit step of
\* EditRecord (and in the read steps of FindById and Search).
C5_NoLockDuringUpdate ==
  \A p \in Procs :
    /\ local[p].pc = "update" => lock # p
    /\ lock = p => local[p].pc \in {"read", "commit", "fread", "scan"}
    /\ (lock = p /\ local[p].op.kind = "edit") =>
         local[p].pc \in {"read", "commit"}

C5_Witness ==
  \E p, q \in Procs :
    /\ local[p].pc = "update" /\ local[p].op.backend = "mem"
    /\ lock = q /\ q # p

\* C6: durable backend.  Of two EditRecord calls that read the same stored
\* record of an existing id and commit different changes, at most one returns
\* committed=true.
C6_DurableAtMostOneCommits ==
  \A p, q \in Procs :
    (/\ p # q
     /\ DoneEditOn(p, "db") /\ DoneEditOn(q, "db")
     /\ local[p].op.id = local[q].op.id
     /\ ~local[p].needsInsert /\ ~local[q].needsInsert
     /\ obs[p].snap = obs[q].snap /\ obs[p].read = obs[q].read
     /\ local[p].op.f.ret /\ local[q].op.f.ret
     /\ local[p].toEdit # local[q].toEdit
     /\ local[p].toEdit # obs[p].read /\ local[q].toEdit # obs[q].read) =>
      ~(local[p].committed /\ local[q].committed)

\* C7: from empty stores, for every sequence of non-overlapping FindById,
\* EditRecord and Search calls, the in-memory and the durable backend return
\* the same committed flags, the same records and the same search lists.
C7_BackendsAgree ==
  seq.phase = "cmp" => seq.memRes = seq.dbRes

\* C8: durable backend.  A statement failure in the read half or the write
\* half of EditRecord ends the call with committed=false and a message, and
\* never ends the process.
C8_IOFailureSurfaced ==
  \A p \in Procs :
    (obs[p].ioFailed /\ local[p].op.kind = "edit") =>
      /\ ~crashed
      /\ local[p].pc = "done" /\ ~local[p].committed /\ local[p].msg # ""

\* C9: an EditRecord that returned committed=false has changed nothing in the
\* store.
C9_RejectedWroteNothing ==
  \A p \in Procs :
    (DoneEdit(p) /\ ~local[p].committed) => ~obs[p].wrote

C9_Witness ==
  \E p \in Procs :
    /\ DoneEdit(p) /\ ~local[p].committed
    /\ local[p].op.f.ret
    /\ local[p].toEdit # obs[p].read
    /\ FindView[store][local[p].op.id] # <<>>
    /\ FindView[store][local[p].op.id] # << local[p].toEdit >>

\* C10: a write by the caller to the fields of a Component that FindById
\* returned changes nothing of what a later FindById returns.
C10_CopyOnRead ==
  [][ \A p \in Procs : CallerWrite(p) => FindView' = FindView ]_vars

\* C10, amended: that holds of the durable backend, whose FindById builds a
\* new Component per call: the write changes neither what a later FindById
\* returns nor the Component another caller was given.  The in-memory FindById
\* returns the stored pointer: a write through it reaches the store, and then
\* only the record of the id that was looked up.
C10_DurableCopyOnRead ==
  [][ \A p \in Procs : CallerWrite(p) =>
        /\ FindView'.db = FindView.db
        /\ local[p].op.backend = "db" =>
             /\ FindView' = FindView
             /\ \A q \in Procs \ {p} :
                  Deref(heap', local[q].result) = Deref(heap, local[q].result)
        /\ \A i \in Ids : i # local[p].op.id =>
             FindView'.mem[i] = FindView.mem[i] ]_vars

C10_Witness ==
  \E p, q \in Procs :
    /\ p # q
    /\ local[p].pc = "done" /\ local[p].op.kind = "find"
    /\ local[q].pc = "done" /\ local[q].op.kind = "find"
    /\ store = "db" /\ local[p].op.id = local[q].op.id
    /\ obs[p].aliasWrite /\ ~obs[q].aliasWrite
    /\ local[p].result # <<>> /\ local[q].result # <<>>
    /\ Deref(heap, local[q].result) = DBFindById(rows, local[q].op.id)
    /\ Deref(heap, local[p].result) # DBFindById(rows, local[p].op.id)

\* The record as the update function of p's call left it, under the id of
\* the call.
AsLeft(p) == [ ApplyUpdate(local[p].op.f, obs[p].read) EXCEPT !.id = local[p].op.id ]

\* An EditRecord of p has returned committed=true, its update function having
\* returned true, and nothing was committed on its id since it returned.
CommittedLast(p) ==
  /\ DoneEdit(p) /\ local[p].committed /\ local[p].op.f.ret
  /\ commits[local[p].op.backend][local[p].op.id] = obs[p].atReturn

\* C11: after an EditRecord(id, f) that returned committed=true with f
\* returning true, and with no commit on the id since, FindById(id) returns
\* exactly the record as f left it, under the same id (so the first such edit
\* of an absent id creates the record).
C11_ReadYourWrite ==
  \A p \in Procs :
    CommittedLast(p) =>
      FindView[local[p].op.backend][local[p].op.id] = << AsLeft(p) >>

\* C11, amended: that holds when f changed a field of the record it was given.
\* When f changed nothing the durable backend stores nothing: FindById
\* still reports an absent id absent, or returns what another call committed
\* after this one had read.
C11_ReadYourChange ==
  \A p \in Procs :
    (CommittedLast(p) /\ AsLeft(p) # obs[p].read) =>
      FindView[local[p].op.backend][local[p].op.id] = << AsLeft(p) >>

C11_Witness ==
  \E p \in Procs :
    /\ CommittedLast(p) /\ AsLeft(p) # obs[p].read
    /\ obs[p].read = NewComponent(local[p].op.id)
    /\ obs[p].snap = 0
    /\ store = "db"
    /\ FindView["db"][local[p].op.id] = << AsLeft(p) >>
    /\ AsLeft(p).category # <<>>


\* C12: Search(term) returns exactly the stored components whose score for the
\* term is greater than 0, each once, highest score first; a component whose
\* score is 0 is not in the result.  (The store is not edited in SpecSearch,
\* so the store a finished Search scanned is the store of the state.)
C12_SearchExact ==
  \A p \in Procs :
    DoneSearch(p) =>
      LET term == local[p].op.term
          hits == { c \in Stored : MatchScore(c, term) > 0 }
          res == Found(p)
      IN  /\ { res[i] : i \in DOMAIN res } = hits
          /\ Len(res) = Cardinality(hits)
          /\ \A i, j \in DOMAIN res :
               i < j => MatchScore(res[i], term) >= MatchScore(res[j], term)

\* C13: Search is deterministic: on the same store, two Searches for the same
\* term return the same list, components of equal score in the same order.
C13_SearchDeterministic ==
  \A p, q \in Procs :
    (DoneSearch(p) /\ DoneSearch(q) /\ local[p].op.term = local[q].op.term) =>
      local[p].result = local[q].result

\* The term occurs in the field, and not at its start.
Buried(term, field) == StringIndex(field, term) > 0

\* a is listed before b wherever both are listed.
Precedes(res, a, b) ==
  \A i, j \in DOMAIN res : (res[i] = a /\ res[j] = b) => i < j

\* C14, as claimed: whatever the category and description fields are, a stored
\* component whose value is exactly the term scores at least as high as one
\* whose value holds the term only as a buried substring, and Search(term)
\* does not list it after that one when the scores differ.
C14_ExactValueFirst ==
  \A p \in Procs :
    DoneSearch(p) =>
      LET term == local[p].op.term
      IN  \A a, b \in Stored :
            (a.value = term /\ Buried(term, b.value)) =>
              /\ MatchScore(a, term) >= MatchScore(b, term)
              /\ MatchScore(a, term) # MatchScore(b, term) =>
                   Precedes(Found(p), a, b)

\* C14, amended: the same where the term matches the category and the
\* description of the first component at least as strongly as those of the
\* second; the first then scores strictly higher and is listed first.
C14_ExactValueFirstOtherFieldsNoWeaker ==
  \A p \in Procs :
    DoneSearch(p) =>
      LET term == local[p].op.term
      IN  \A a, b \in Stored :
            ( /\ a.value = term /\ Buried(term, b.value)
              /\ StringScore(term, a.category) >= StringScore(term, b.category)
              /\ StringScore(term, a.description)
                   >= StringScore(term, b.description) ) =>
              /\ MatchScore(a, term) > MatchScore(b, term)
              /\ Precedes(Found(p), a, b)

\* An in-memory Search listed an exact-value component before a buried-value
\* one, both matching the term in the description as well.
C14_Witness ==
  \E p \in Procs :
    /\ DoneSearch(p) /\ store = "mem"
    /\ \E i, j \in DOMAIN Found(p) :
         /\ i < j
         /\ Found(p)[i].value = local[p].op.term
         /\ Buried(local[p].op.term, Found(p)[j].value)
         /\ StringScore(local[p].op.term, Found(p)[j].description) = 2
         /\ StringScore(local[p].op.term, Found(p)[i].description) = 2

\* The term is a substring of the field; it is the start of the field.
Occurs(term, field) ==
  \E i \in 0..(Len(field) - Len(term)) : SubSeq(field, i + 1, i + Len(term)) = term

AtStart(term, field) ==
  Len(term) <= Len(field) /\ SubSeq(field, 1, Len(term)) = term

Match(term, field) ==
  IF ~Occurs(term, field) THEN 0 ELSE IF AtStart(term, field) THEN 2 ELSE 1

\* C20: the score of a component for a term is 1*match(category) +
\* 3*match(value) + 2*match(description), match being 0 where the term is not
\* a substring of the field, 2 where it starts the field and 1 otherwise, with
\* letters compared exactly; the score is 0 exactly when the term occurs in
\* none of the three fields.
C20_ScoreFormula ==
  probe.score # <<>> =>
    LET c == probe.comp[1]
        t == probe.term
    IN  /\ probe.score[1] = 1 * Match(t, c.category) + 3 * Match(t, c.value)
                              + 2 * Match(t, c.description)
        /\ probe.score[1] = 0 <=>
             ( ~Occurs(t, c.category) /\ ~Occurs(t, c.value)
               /\ ~Occurs(t, c.description) )

\* Scored: a category holding the term further in, a value starting with it,
\* and a description holding it only in the other case.
C20_Witness ==
  /\ probe.score = << 7 >>
  /\ probe.term = <<"k">>
  /\ probe.comp[1].category = <<"r", "k">>
  /\ probe.comp[1].value = <<"k", "r", "k">>
  /\ probe.comp[1].description = <<"K">>

\* The record id is stored; the set it is in.
Held(id) == catalog[id] # <<>>
SetOf(id) == catalog[id][1].Equiv_set

\* C15: JoinSet(A, B) followed by LeaveSet(A) leaves A's equiv_set equal to
\* A's id, and no JoinSet or LeaveSet call changes any field of a record other
\* than the one it was called on.
C15_JoinLeaveRoundTrip ==
  /\ ( /\ setlog.last.kind = "leave" /\ setlog.prev.kind = "join"
       /\ setlog.prev.id = setlog.last.id /\ Held(setlog.last.id) ) =>
       SetOf(setlog.last.id) = setlog.last.id
  /\ setlog.last.kind \in {"join", "leave"} => setlog.changed \subseteq {setlog.last.id}

\* A joined B's set, where C already was, and left it again: A is back in its
\* own set, C is still in B's.
C15_Witness ==
  /\ setlog.last.kind = "leave" /\ setlog.prev.kind = "join"
  /\ setlog.prev.id = setlog.last.id
  /\ setlog.prev.set # setlog.last.id /\ Held(setlog.prev.set)
  /\ Held(setlog.last.id) /\ SetOf(setlog.last.id) = setlog.last.id
  /\ setlog.changed = {setlog.last.id}
  /\ \E c \in SetIds \ {setlog.last.id, setlog.prev.set} :
       Held(c) /\ SetOf(c) = setlog.prev.set

Running(p) == local[p].pc \notin {"idle", "done"}

\* C19: an EditRecord reads the record once and runs its update function at
\* most once; on a conflict it returns committed=false after that one read
\* and one run; and under fair scheduling every EditRecord, FindById and
\* Search call returns, also when the update function calls FindById.
C19_FailFastAndReturns ==
  /\ [](\A p \in Procs :
          /\ obs[p].reads <= 1 /\ obs[p].updates <= 1
          /\ (DoneEdit(p) /\ local[p].msg = ConflictMsg) =>
               (~local[p].committed /\ obs[p].reads = 1 /\ obs[p].updates = 1))
  /\ \A p \in Procs : Running(p) ~> (local[p].pc = "done")

\* Two edits of one id have returned: one whose update function called
\* FindById committed, the other met the conflict and returned false.
C19_Witness ==
  \E p, q \in Procs :
    /\ DoneEdit(p) /\ local[p].op.f.finds /\ local[p].committed
    /\ obs[p].updates = 1
    /\ DoneEdit(q) /\ local[q].msg = ConflictMsg /\ ~local[q].committed
    /\ local[q].op.id = local[p].op.id
    /\ obs[q].reads = 1 /\ obs[q].updates = 1

\* C21: in-memory backend.  An EditRecord on an id changes the stored record
\* of no other id, and commits of other calls on other ids never make it
\* return the conflict: it is rejected only when a call committed on its own
\* id between its snapshot and its commit step.
C21_EditsOfOtherIdsIndependent ==
  \A p \in Procs :
    DoneEditOn(p, "mem") =>
      /\ obs[p].touched \subseteq {local[p].op.id}
      /\ (local[p].op.f.ret /\ obs[p].between = 0) =>
           (local[p].committed /\ local[p].msg # ConflictMsg)
      /\ local[p].msg = ConflictMsg => obs[p].between >= 1

\* An edit committed although another call committed on the other id between
\* its snapshot and its commit step, and that other record is still stored.
C21_Witness ==
  \E p, q \in Procs :
    /\ DoneEditOn(p, "mem") /\ DoneEditOn(q, "mem")
    /\ local[p].op.id # local[q].op.id
    /\ obs[p].elsewhere /\ obs[p].between = 0
    /\ local[p].committed /\ local[q].committed
    /\ obs[p].touched = {local[p].op.id}
    /\ StoreView.record[local[p].op.id] = << local[p].toEdit >>
    /\ StoreView.record[local[q].op.id] = << local[q].toEdit >>

\* A step leaves every Component object that exists as it is.
ObjectsKept == \A a \in DOMAIN heap : a \in DOMAIN heap' /\ heap'[a] = heap[a]

\* A step that changes a map entry points it at an object made in that step.
InstallsFresh ==
  \A i \in Ids :
    id2Component'[i] # id2Component[i] =>
      (id2Component'[i] \notin DOMAIN heap /\ id2Component'[i] \in DOMAIN heap')

\* C22: in-memory backend.  The store never changes a record object it has
\* published: every commit points the map at a new object, so whatever
\* FindById or Search returned keeps its field values through later commits;
\* and while a Search reads the records no EditRecord is in its commit step,
\* the only step that writes what the map holds.
C22_PublishedRecordsImmutable ==
  /\ [][store = "mem" => (ObjectsKept /\ InstallsFresh)]_vars
  /\ [](\A p, q \in Procs :
          (p # q /\ local[p].pc = "scan") => local[q].pc \notin {"read", "commit"})

\* A FindById returned the record of an id; a later EditRecord committed
\* another value for that id; the object returned still has the old value,
\* and the map holds a different object.
C22_Witness ==
  \E p, q \in Procs :
    /\ store = "mem"
    /\ local[p].pc = "done" /\ local[p].op.kind = "find" /\ local[p].result # <<>>
    /\ DoneEditOn(q, "mem") /\ local[q].committed
    /\ local[q].op.id = local[p].op.id
    /\ id2Component[local[p].op.id] # local[p].result[1]
    /\ StoreView.record[local[p].op.id] = << local[q].toEdit >>
    /\ heap[local[p].result[1]].value # local[q].toEdit.value
    /\ heap[local[p].result[1]].id = local[p].op.id

====
